---- MODULE Spec2Model ----
(***************************************************************************)
(* A model of train_vae3.py: the decode sequence of the modified decoder   *)
(* (new_forward), the per-batch split into input tile and target stack,    *)
(* the perceptual term of the loss, the resolution of the "latest"         *)
(* checkpoint, the training loop with gradient accumulation,              *)
(* checkpointing and resume under N data-parallel workers, the start-up    *)
(* checks of the command line, and the surgery on the pretrained decoder   *)
(* with the freezing of the encoder.                                       *)
(*                                                                         *)
(* The module holds several specifications over one set of variables; each *)
(* specification moves its own group of variables and leaves the others at *)
(* their idle values.                                                      *)
(***************************************************************************)
EXTENDS Integers, Sequences, FiniteSets, TLC

VARIABLES
    \* ---- decoder forward (new_forward) ----
    dec_training,   \* self.training of the decoder module
    dec_gc,         \* self.gradient_checkpointing
    dec_embeds,     \* latent_embeds is not None
    dec_nup,        \* len(self.up_blocks)
    dec_pc,         \* position inside new_forward
    dec_i,          \* index of the up_block loop
    dec_trace       \* stages applied to `sample` so far, in order, each
                    \* <<name, index>> (index 0 outside the up_block loop)

VARIABLES
    \* ---- one batch: collate_fn and the split of lines 732-746 ----
    sp_pc,          \* position inside the step
    examples,       \* the examples handed to collate_fn (one image id each)
    weight_dtype,   \* line 653-657
    pixel_values,   \* batch["pixel_values"], the result of collate_fn
    datafile,       \* line 732
    input_image,    \* line 734
    images,         \* line 742: the chunks
    squeezed,       \* line 745: the list [img.squeeze(0) for img in images[1:]]
    target          \* lines 745-746

VARIABLES
    \* ---- the perceptual term, lines 758-771 ----
    ls_pc,              \* position inside the loss computation
    ls_i,               \* the loop variable i of line 759
    lpips_calls,        \* the calls of lpips_loss_fn made so far: the channels
                        \* of pred and of target handed over, and the score
    total_lpips_loss,   \* line 758, 770
    lpips_loss          \* line 771, a fraction [num, den]

VARIABLES
    \* ---- resolving "latest", lines 696-699 ----
    lt_pc,          \* position inside the resolution
    listing,        \* os.listdir(args.output_dir), in the order the OS gives
    dirs,           \* the variable dirs
    path            \* the variable path

VARIABLES
    \* ---- the training run: main(), lines 316-822 ----
    num_batches,                  \* len(train_dataloader), per process
    gradient_accumulation_steps,  \* args.gradient_accumulation_steps
    num_train_epochs,             \* args.num_train_epochs
    checkpointing_steps,          \* args.checkpointing_steps
    dataset_name,                 \* args.dataset_name
    train_data_dir,               \* args.train_data_dir
    image_column,                 \* args.image_column
    checkpoints_total_limit,      \* args.checkpoints_total_limit, 0 for None
    launch_resume,                \* --resume_from_checkpoint of this launch
    run,                          \* the number of this launch of the program
    output_dir,                   \* the output directory: name -> content
    writes,                       \* who has written what to the output directory
                                  \* in this launch
    pc,                           \* per process: its position in main()
    args_resume,                  \* per process: args.resume_from_checkpoint
    resume_path,                  \* per process: the variable path (693-699)
    found,                        \* per process: did the requested checkpoint exist
    global_step,                  \* per process
    initial_global_step,          \* per process
    first_epoch,                  \* per process
    epoch,                        \* per process: the loop variable of line 727
    step,                         \* per process: the loop variable of line 730
    acc_step,                     \* per process: accelerator.step
    sync_gradients,               \* per process: accelerator.sync_gradients
    grads,                        \* per process: batches accumulated in .grad
    window,                       \* per process: batches the last optimizer step applied
    opt_steps,                    \* per process: updates held by the optimizer state
    sched_steps,                  \* per process: steps held by the scheduler state
    applied,                      \* per process: what lines 781-784 did to this batch
    coll,                         \* per process: collectives entered
    hist,                         \* the batch that completed each step of the first launch
    last_pos                      \* the batch that completed the primary's last step

VARIABLES
    \* ---- decoder surgery and parameter freezing, lines 349-397, 507-538 ----
    sur_pc,             \* position inside main()
    onlytraindecoder,   \* args.onlytraindecoder
    pretrained,         \* the decoder as from_pretrained returned it
    vae,                \* vae.decoder, edited in place
    parameters,         \* the parameters of vae, by the module that holds them
    vae_params,         \* the parameters handed to the optimizer
    latent,             \* the shape of the latent that is decoded
    decoded,            \* the shape new_forward returned
    updates             \* optimizer steps taken

decVars == <<dec_training, dec_gc, dec_embeds, dec_nup, dec_pc, dec_i, dec_trace>>

splitVars == <<sp_pc, examples, weight_dtype, pixel_values, datafile,
               input_image, images, squeezed, target>>

lossVars == <<ls_pc, ls_i, lpips_calls, total_lpips_loss, lpips_loss>>

latestVars == <<lt_pc, listing, dirs, path>>

configVars == <<num_batches, gradient_accumulation_steps, num_train_epochs,
                checkpointing_steps, dataset_name, train_data_dir,
                image_column, checkpoints_total_limit>>

trainVars == <<configVars, launch_resume, run, output_dir, writes, pc,
               args_resume, resume_path, found, global_step,
               initial_global_step, first_epoch, epoch, step, acc_step,
               sync_gradients, grads, window, opt_steps, sched_steps, applied,
               coll, hist, last_pos>>

surgeryVars == <<sur_pc, onlytraindecoder, pretrained, vae, parameters,
                 vae_params, latent, decoded, updates>>

vars == <<decVars, splitVars, lossVars, latestVars, trainVars, surgeryVars>>

notDecVars == <<splitVars, lossVars, latestVars, trainVars, surgeryVars>>
notSplitVars == <<decVars, lossVars, latestVars, trainVars, surgeryVars>>
notLossVars == <<decVars, splitVars, latestVars, trainVars, surgeryVars>>
notLatestVars == <<decVars, splitVars, lossVars, trainVars, surgeryVars>>
notSurgeryVars == <<decVars, splitVars, lossVars, latestVars, trainVars>>
notTrainVars == <<decVars, splitVars, lossVars, latestVars, surgeryVars>>

(***************************************************************************)
(* Bounds.                                                                 *)
(***************************************************************************)
MaxUpBlocks == 3
MaxBatchSize == 2      \* args.train_batch_size ranges over 1..MaxBatchSize
MaxImages == 2         \* distinct images of the dataset
Resolution == 2        \* the side of one tile, 512 in the source, scaled down
MaxScore == 2          \* a perceptual score is one of 0..MaxScore
MaxDirs == 3           \* entries of the output directory when it is listed
NumProcesses == 2      \* data-parallel workers; process 0 is the primary
MaxBatches == 2        \* len(train_dataloader) ranges over 1..MaxBatches
MaxAccumulation == 2   \* gradient_accumulation_steps ranges over 1..MaxAccumulation
MaxEpochs == 2         \* num_train_epochs ranges over 1..MaxEpochs
MaxCheckpointing == 2  \* checkpointing_steps ranges over 1..MaxCheckpointing
MaxExplicit == 2       \* explicit resume paths are checkpoint-1..checkpoint-MaxExplicit
MaxRuns == 2           \* launches of the program over one output directory
MaxLatent == 4         \* the side of a latent ranges over 3..MaxLatent
MaxUpdates == 2        \* optimizer steps followed after surgery
MaxLimit == 2          \* checkpoints_total_limit ranges over None and 1..MaxLimit

(***************************************************************************)
(* Decoder forward policy: new_forward, src/train_vae3.py:404-506.         *)
(***************************************************************************)

\* line 414: the branch taken by one decode call
Recompute == dec_training /\ dec_gc

\* how a stage that the recompute branch hands to torch.utils.checkpoint is run
Wrapped == IF Recompute THEN "checkpoint" ELSE "direct"

Apply(stage, how) ==
    dec_trace' = Append(dec_trace, [stage |-> stage, how |-> how])

DecInitIdle ==
    /\ dec_training = FALSE /\ dec_gc = FALSE /\ dec_embeds = FALSE
    /\ dec_nup = 0 /\ dec_pc = "idle" /\ dec_i = 0 /\ dec_trace = <<>>

DecInit ==
    /\ dec_training \in BOOLEAN
    /\ dec_gc \in BOOLEAN
    /\ dec_embeds \in BOOLEAN
    /\ dec_nup \in 1..MaxUpBlocks
    /\ dec_pc = "conv_in"
    /\ dec_i = 0
    /\ dec_trace = <<>>

\* line 411
ConvIn ==
    /\ dec_pc = "conv_in"
    /\ Apply(<<"conv_in", 0>>, "direct")
    /\ dec_pc' = "mid_block"
    /\ UNCHANGED <<dec_training, dec_gc, dec_embeds, dec_nup, dec_i>>
    /\ UNCHANGED notDecVars

\* lines 425-430 (recompute) and 480 (direct)
MidBlock ==
    /\ dec_pc = "mid_block"
    /\ Apply(<<"mid_block", 0>>, Wrapped)
    /\ dec_pc' = "copied_mid_block1"
    /\ UNCHANGED <<dec_training, dec_gc, dec_embeds, dec_nup, dec_i>>
    /\ UNCHANGED notDecVars

\* lines 431-436 and 481
CopiedMidBlock1 ==
    /\ dec_pc = "copied_mid_block1"
    /\ Apply(<<"copied_mid_block1", 0>>, Wrapped)
    /\ dec_pc' = "copied_mid_block2"
    /\ UNCHANGED <<dec_training, dec_gc, dec_embeds, dec_nup, dec_i>>
    /\ UNCHANGED notDecVars

\* lines 437-442 and 482
CopiedMidBlock2 ==
    /\ dec_pc = "copied_mid_block2"
    /\ Apply(<<"copied_mid_block2", 0>>, Wrapped)
    /\ dec_pc' = "cast_up"
    /\ UNCHANGED <<dec_training, dec_gc, dec_embeds, dec_nup, dec_i>>
    /\ UNCHANGED notDecVars

\* the stage that follows the up_block loop; the legacy branch at 462-477
\* (unreachable behind `if True`) would go straight to post-processing
AfterUpBlocks_skip == "post_norm"

\* lines 446-456 and 486-491: the loop falls through to copied_mid_block3
AfterUpBlocks == "copied_mid_block3"

\* lines 443 and 483: sample.to(upscale_dtype)
CastUp ==
    /\ dec_pc = "cast_up"
    /\ Apply(<<"to_upscale_dtype", 0>>, "direct")
    /\ dec_i' = 1
    /\ dec_pc' = "up_blocks"
    /\ UNCHANGED <<dec_training, dec_gc, dec_embeds, dec_nup>>
    /\ UNCHANGED notDecVars

\* lines 446-452 and 486-487: one iteration of `for up_block in self.up_blocks`
UpBlock ==
    /\ dec_pc = "up_blocks"
    /\ dec_i <= dec_nup
    /\ Apply(<<"up_block", dec_i>>, Wrapped)
    /\ dec_i' = dec_i + 1
    /\ dec_pc' = IF dec_i = dec_nup THEN AfterUpBlocks ELSE "up_blocks"
    /\ UNCHANGED <<dec_training, dec_gc, dec_embeds, dec_nup>>
    /\ UNCHANGED notDecVars

\* lines 456 and 491: called on the module itself in both branches
CopiedMidBlock3 ==
    /\ dec_pc = "copied_mid_block3"
    /\ Apply(<<"copied_mid_block3", 0>>, "direct")
    /\ dec_pc' = "copied_mid_block4"
    /\ UNCHANGED <<dec_training, dec_gc, dec_embeds, dec_nup, dec_i>>
    /\ UNCHANGED notDecVars

\* lines 458 and 492: called on the module itself in both branches
CopiedMidBlock4 ==
    /\ dec_pc = "copied_mid_block4"
    /\ Apply(<<"copied_mid_block4", 0>>, "direct")
    /\ dec_pc' = "cast_out"
    /\ UNCHANGED <<dec_training, dec_gc, dec_embeds, dec_nup, dec_i>>
    /\ UNCHANGED notDecVars

\* lines 460 and 493
CastOut ==
    /\ dec_pc = "cast_out"
    /\ Apply(<<"to_upscale_dtype", 0>>, "direct")
    /\ dec_pc' = "post_norm"
    /\ UNCHANGED <<dec_training, dec_gc, dec_embeds, dec_nup, dec_i>>
    /\ UNCHANGED notDecVars

\* lines 499-502: conv_norm_out, with or without latent_embeds
ConvNormOut ==
    /\ dec_pc = "post_norm"
    /\ Apply(<<"conv_norm_out", 0>>, "direct")
    /\ dec_pc' = "post_act"
    /\ UNCHANGED <<dec_training, dec_gc, dec_embeds, dec_nup, dec_i>>
    /\ UNCHANGED notDecVars

\* line 503
ConvAct ==
    /\ dec_pc = "post_act"
    /\ Apply(<<"conv_act", 0>>, "direct")
    /\ dec_pc' = "post_conv_out"
    /\ UNCHANGED <<dec_training, dec_gc, dec_embeds, dec_nup, dec_i>>
    /\ UNCHANGED notDecVars

\* lines 504-506
ConvOut ==
    /\ dec_pc = "post_conv_out"
    /\ Apply(<<"conv_out", 0>>, "direct")
    /\ dec_pc' = "done"
    /\ UNCHANGED <<dec_training, dec_gc, dec_embeds, dec_nup, dec_i>>
    /\ UNCHANGED notDecVars

DecNext ==
    \/ ConvIn
    \/ MidBlock
    \/ CopiedMidBlock1
    \/ CopiedMidBlock2
    \/ CastUp
    \/ UpBlock
    \/ CopiedMidBlock3
    \/ CopiedMidBlock4
    \/ CastOut
    \/ ConvNormOut
    \/ ConvAct
    \/ ConvOut

(***************************************************************************)
(* Tensors.  A tensor is its shape, its dtype and its elements in          *)
(* row-major order.  An element is not a number but the pixel it was taken *)
(* from, <<image, channel, row, column>>, so that what a slice, a chunk or *)
(* a concatenation selects can be read off the result.                     *)
(***************************************************************************)
NoTensor == [shape |-> <<>>, dtype |-> "none", data |-> <<>>]

RECURSIVE Prod(_)
Prod(shape) == IF shape = <<>> THEN 1 ELSE Head(shape) * Prod(Tail(shape))

RECURSIVE Flatten(_)
Flatten(ss) == IF ss = <<>> THEN <<>> ELSE Head(ss) \o Flatten(Tail(ss))

Min(a, b) == IF a <= b THEN a ELSE b

\* math.ceil(a / b) for b > 0
Ceil(a, b) == IF a % b = 0 THEN a \div b ELSE (a \div b) + 1

\* train_transforms, lines 572-581: one example is a [3, H, 5W] tensor of the
\* pixels of image m, resized to (Resolution, 5 * Resolution)
Example(m) ==
    [shape |-> <<3, Resolution, 5 * Resolution>>,
     dtype |-> "float32",
     data  |-> [j \in 1..(3 * Resolution * 5 * Resolution) |->
                  <<m,
                    (j - 1) \div (Resolution * 5 * Resolution),
                    ((j - 1) \div (5 * Resolution)) % Resolution,
                    (j - 1) % (5 * Resolution)>>]]

\* torch.stack(ts): a new leading dimension of size len(ts)
Stack(ts) ==
    [shape |-> <<Len(ts)>> \o ts[1].shape,
     dtype |-> ts[1].dtype,
     data  |-> Flatten([k \in 1..Len(ts) |-> ts[k].data])]

\* t.to(dtype) and t.float()
ToDtype(t, dtype) == [t EXCEPT !.dtype = dtype]

\* t[..., lo:hi] on the last dimension, with Python's clamping of the bounds
SliceLast(t, lo, hi) ==
    LET n    == Len(t.shape)
        wd   == t.shape[n]
        l    == Min(lo, wd)
        h    == Min(hi, wd)
        w    == IF h > l THEN h - l ELSE 0
        rows == Prod(SubSeq(t.shape, 1, n - 1))
    IN  [shape |-> [t.shape EXCEPT ![n] = w],
         dtype |-> t.dtype,
         data  |-> [j \in 1..(rows * w) |->
                      t.data[((j - 1) \div w) * wd + l + ((j - 1) % w) + 1]]]

\* torch.chunk(t, n, dim=last): chunks of ceil(size / n) columns
Chunk(t, n) ==
    LET wd == t.shape[Len(t.shape)]
        cs == Ceil(wd, n)
    IN  [k \in 1..Ceil(wd, cs) |-> SliceLast(t, (k - 1) * cs, k * cs)]

\* t.squeeze(0): drops dimension 0 only when its size is 1
Squeeze0(t) ==
    IF t.shape[1] = 1 THEN [t EXCEPT !.shape = Tail(t.shape)] ELSE t

RECURSIVE SumHeads(_)
SumHeads(ts) ==
    IF ts = <<>> THEN 0 ELSE Head(ts).shape[1] + SumHeads(Tail(ts))

\* torch.cat(ts, dim=0)
Cat0(ts) ==
    [shape |-> <<SumHeads(ts)>> \o Tail(ts[1].shape),
     dtype |-> ts[1].dtype,
     data  |-> Flatten([k \in 1..Len(ts) |-> ts[k].data])]

\* t.unsqueeze(0)
Unsqueeze0(t) == [t EXCEPT !.shape = <<1>> \o t.shape]

(***************************************************************************)
(* One batch: collate_fn (595-598) and the split of lines 732-746.         *)
(***************************************************************************)
SplitInitIdle ==
    /\ sp_pc = "idle" /\ examples = <<>> /\ weight_dtype = "float32"
    /\ pixel_values = NoTensor /\ datafile = NoTensor
    /\ input_image = NoTensor /\ images = <<>> /\ squeezed = <<>>
    /\ target = NoTensor

\* a batch of 1..MaxBatchSize examples (DataLoader, 601-606) and the mixed
\* precision the accelerator runs in (653-657)
SplitInit ==
    /\ sp_pc = "collate"
    /\ \E b \in 1..MaxBatchSize : examples \in [1..b -> 1..MaxImages]
    /\ weight_dtype \in {"float32", "float16", "bfloat16"}
    /\ pixel_values = NoTensor /\ datafile = NoTensor
    /\ input_image = NoTensor /\ images = <<>> /\ squeezed = <<>>
    /\ target = NoTensor

\* lines 595-598
collate_fn ==
    /\ sp_pc = "collate"
    /\ pixel_values' =
          ToDtype(Stack([k \in 1..Len(examples) |-> Example(examples[k])]),
                  "float32")
    /\ sp_pc' = "to_dtype"
    /\ UNCHANGED <<examples, weight_dtype, datafile, input_image, images,
                   squeezed, target>>
    /\ UNCHANGED notSplitVars

\* line 732
CastBatch ==
    /\ sp_pc = "to_dtype"
    /\ datafile' = ToDtype(pixel_values, weight_dtype)
    /\ sp_pc' = "slice"
    /\ UNCHANGED <<examples, weight_dtype, pixel_values, input_image, images,
                   squeezed, target>>
    /\ UNCHANGED notSplitVars

\* line 734: datafile[:, :, :, :512]
SliceInput ==
    /\ sp_pc = "slice"
    /\ input_image' = SliceLast(datafile, 0, Resolution)
    /\ sp_pc' = "chunk"
    /\ UNCHANGED <<examples, weight_dtype, pixel_values, datafile, images,
                   squeezed, target>>
    /\ UNCHANGED notSplitVars

\* line 742: torch.chunk(datafile, 5, dim=3)
ChunkBatch ==
    /\ sp_pc = "chunk"
    /\ images' = Chunk(datafile, 5)
    /\ sp_pc' = "squeeze"
    /\ UNCHANGED <<examples, weight_dtype, pixel_values, datafile, input_image,
                   squeezed, target>>
    /\ UNCHANGED notSplitVars

\* line 745: one element of [img.squeeze(0) for img in images[1:]]
SqueezeImage ==
    /\ sp_pc = "squeeze"
    /\ Len(squeezed) < Len(images) - 1
    /\ squeezed' = Append(squeezed, Squeeze0(images[Len(squeezed) + 2]))
    /\ UNCHANGED <<sp_pc, examples, weight_dtype, pixel_values, datafile,
                   input_image, images, target>>
    /\ UNCHANGED notSplitVars

\* line 745: torch.cat(..., dim=0)
CatTarget ==
    /\ sp_pc = "squeeze"
    /\ Len(squeezed) = Len(images) - 1
    /\ target' = Cat0(squeezed)
    /\ sp_pc' = "unsqueeze"
    /\ UNCHANGED <<examples, weight_dtype, pixel_values, datafile, input_image,
                   images, squeezed>>
    /\ UNCHANGED notSplitVars

\* line 746: target.unsqueeze(0)
UnsqueezeTarget ==
    /\ sp_pc = "unsqueeze"
    /\ target' = Unsqueeze0(target)
    /\ sp_pc' = "done"
    /\ UNCHANGED <<examples, weight_dtype, pixel_values, datafile, input_image,
                   images, squeezed>>
    /\ UNCHANGED notSplitVars

SplitNext ==
    \/ collate_fn
    \/ CastBatch
    \/ SliceInput
    \/ ChunkBatch
    \/ SqueezeImage
    \/ CatTarget
    \/ UnsqueezeTarget

(***************************************************************************)
(* The perceptual term of the loss, lines 758-771.  lpips_loss_fn is the   *)
(* external metric: its score for a pair of 3-channel images is any value  *)
(* of 0..MaxScore.  A slice of the channel axis is the set of channels it  *)
(* keeps.                                                                  *)
(***************************************************************************)
new_output_channels == 12

\* t[:, lo:hi] on a channel axis of n channels
ChannelSlice(n, lo, hi) == {c \in 0..(n - 1) : lo <= c /\ c < hi}

\* line 762 with the groups one channel too wide
EndChannel_wide(i) == (i + 1) * 3 + 1

\* line 761
StartChannel(i) == i * 3

\* line 762
EndChannel(i) == (i + 1) * 3

LossInitIdle ==
    /\ ls_pc = "idle" /\ ls_i = 0 /\ lpips_calls = <<>>
    /\ total_lpips_loss = 0 /\ lpips_loss = [num |-> 0, den |-> 1]

\* line 758; pred (line 753) and target (line 746) both have
\* new_output_channels channels once mse_loss (757) has accepted them
LossInit ==
    /\ ls_pc = "loop" /\ ls_i = 0 /\ lpips_calls = <<>>
    /\ total_lpips_loss = 0 /\ lpips_loss = [num |-> 0, den |-> 1]

\* lines 759-770: one iteration of `for i in range(4)`
LpipsGroup ==
    /\ ls_pc = "loop"
    /\ ls_i < 4
    /\ \E score \in 0..MaxScore :
          LET pred_channel ==
                  ChannelSlice(new_output_channels, StartChannel(ls_i),
                               EndChannel(ls_i))
              target_channel ==
                  ChannelSlice(new_output_channels, StartChannel(ls_i),
                               EndChannel(ls_i))
          IN  /\ lpips_calls' = Append(lpips_calls,
                                       [pred |-> pred_channel,
                                        target |-> target_channel,
                                        score |-> score])
              /\ total_lpips_loss' = total_lpips_loss + score
    /\ ls_i' = ls_i + 1
    /\ UNCHANGED <<ls_pc, lpips_loss>>
    /\ UNCHANGED notLossVars

\* line 771
LpipsMean ==
    /\ ls_pc = "loop"
    /\ ls_i = 4
    /\ lpips_loss' = [num |-> total_lpips_loss, den |-> 4]
    /\ ls_pc' = "done"
    /\ UNCHANGED <<ls_i, lpips_calls, total_lpips_loss>>
    /\ UNCHANGED notLossVars

LossNext ==
    \/ LpipsGroup
    \/ LpipsMean

(***************************************************************************)
(* Resolving "latest", lines 696-699.  A directory name is the sequence of *)
(* its "-"-separated parts: <<"logs">>, or <<"checkpoint", digits>> with   *)
(* the decimal digits of the step as f"checkpoint-{global_step}" (796)     *)
(* writes them.                                                            *)
(***************************************************************************)
None == <<"None">>

RECURSIVE Str(_)
\* str(n) for n >= 0: the decimal digits, most significant first
Str(n) == IF n < 10 THEN <<n>> ELSE Append(Str(n \div 10), n % 10)

RECURSIVE IntOf(_)
\* int(s) for a string of decimal digits
IntOf(ds) ==
    IF ds = <<>> THEN 0
    ELSE 10 * IntOf(SubSeq(ds, 1, Len(ds) - 1)) + ds[Len(ds)]

\* line 796: f"checkpoint-{global_step}"
CheckpointName(g) == <<"checkpoint", Str(g)>>

RECURSIVE LexLeq(_, _)
\* a <= b as Python compares strings of digits
LexLeq(a, b) ==
    IF a = <<>> THEN TRUE
    ELSE IF b = <<>> THEN FALSE
    ELSE IF Head(a) # Head(b) THEN Head(a) < Head(b)
    ELSE LexLeq(Tail(a), Tail(b))

\* sorted(dirs) without the key: names compared as strings
DirLeq_lex(a, b) == LexLeq(a[2], b[2])

\* line 698: the order of key=lambda x: int(x.split("-")[1])
DirLeq(a, b) == IntOf(a[2]) <= IntOf(b[2])

\* line 697: d.startswith("checkpoint")
IsCheckpointDir(d) == d[1] = "checkpoint"

RECURSIVE Insert(_, _)
\* d put after the last element that is not greater: sorted() is stable
Insert(sorted, d) ==
    IF sorted = <<>> THEN <<d>>
    ELSE IF DirLeq(sorted[Len(sorted)], d) THEN Append(sorted, d)
    ELSE Append(Insert(SubSeq(sorted, 1, Len(sorted) - 1), d),
                sorted[Len(sorted)])

RECURSIVE Sorted(_)
\* line 698: sorted(dirs, key=...)
Sorted(ds) ==
    IF ds = <<>> THEN <<>>
    ELSE Insert(Sorted(SubSeq(ds, 1, Len(ds) - 1)), ds[Len(ds)])

\* line 699
LastOrNone(ds) == IF Len(ds) > 0 THEN ds[Len(ds)] ELSE None

\* the names an output directory may hold when it is listed
DirNames ==
    {<<"logs">>} \cup {CheckpointName(g) : g \in {9, 50, 100, 250}}

\* the sequences without repetition of at most n names of S
Listings(S, n) ==
    UNION {{l \in [1..k -> S] : \A i, j \in 1..k : i # j => l[i] # l[j]} :
           k \in 0..n}

LatestInitIdle ==
    /\ lt_pc = "idle" /\ listing = <<>> /\ dirs = <<>> /\ path = None

\* line 696: os.listdir gives the entries in no particular order
LatestInit ==
    /\ lt_pc = "filter"
    /\ listing \in Listings(DirNames, MaxDirs)
    /\ dirs = listing
    /\ path = None

\* line 697
FilterDirs ==
    /\ lt_pc = "filter"
    /\ dirs' = SelectSeq(dirs, IsCheckpointDir)
    /\ lt_pc' = "sort"
    /\ UNCHANGED <<listing, path>>
    /\ UNCHANGED notLatestVars

\* line 698
SortDirs ==
    /\ lt_pc = "sort"
    /\ dirs' = Sorted(dirs)
    /\ lt_pc' = "pick"
    /\ UNCHANGED <<listing, path>>
    /\ UNCHANGED notLatestVars

\* line 699
PickLast ==
    /\ lt_pc = "pick"
    /\ path' = LastOrNone(dirs)
    /\ lt_pc' = "done"
    /\ UNCHANGED <<listing, dirs>>
    /\ UNCHANGED notLatestVars

LatestNext ==
    \/ FilterDirs
    \/ SortDirs
    \/ PickLast

(***************************************************************************)
(* The training run: main(), lines 316-822, under NumProcesses             *)
(* data-parallel processes started by one launch.  Every process runs the  *)
(* same code on its own replica; the processes meet at the collectives     *)
(* (main_process_first 588, gather 778, wait_for_everyone 817).  The       *)
(* accelerator's documented behaviour is modelled at the call sites:       *)
(* accumulate() sets sync_gradients on every gradient_accumulation_steps-th*)
(* batch and on the last batch of the dataloader, and the prepared         *)
(* optimizer and scheduler skip step() and zero_grad() while               *)
(* sync_gradients is false.  The launch may be terminated from outside at  *)
(* any moment and the program launched again over the same directory.      *)
(***************************************************************************)
Procs == 0..(NumProcesses - 1)

\* accelerator.is_main_process with the test dropped
IsMainProcess_all(w) == TRUE

\* accelerator.is_main_process, lines 345, 663, 794, 818
IsMainProcess(w) == w = 0

\* lines 667-669
UpdateStepsPerEpoch(nb, gas) == Ceil(nb, gas)

\* line 670
MaxTrainSteps(epochs, nb, gas) == epochs * UpdateStepsPerEpoch(nb, gas)

\* line 713 dividing by the number of batches instead
FirstEpoch_batches(g, nb, gas) == g \div nb

\* line 713
FirstEpoch(g, nb, gas) == g \div UpdateStepsPerEpoch(nb, gas)

\* line 793 testing the step about to be taken
CheckpointDue_early(g, cs) == (g + 1) % cs = 0

\* line 793
CheckpointDue(g, cs) == g % cs = 0

\* accumulate() with the window never cut at the end of the dataloader
SyncNow_window(stepNo, gas, last) == stepNo % gas = 0

\* line 731, accelerator.accumulate: does this batch complete a window
\* (stepNo is accelerator.step after this batch has been counted)
SyncNow(stepNo, gas, last) == last \/ stepNo % gas = 0

\* the values --resume_from_checkpoint takes
ResumeArgs ==
    {None, <<"latest">>} \cup {CheckpointName(g) : g \in 1..MaxExplicit}

\* the order of two names as strings
NameLeq(a, b) ==
    LET rank(x) == CASE x[1] = "checkpoint" -> 1
                     [] x[1] = "config.json" -> 2
                     [] OTHER -> 3
    IN  IF rank(a) # rank(b) THEN rank(a) < rank(b)
        ELSE Len(a) = 1 \/ LexLeq(a[2], b[2])

RECURSIVE ByName(_)
\* the names of S in string order
ByName(S) ==
    IF S = {} THEN <<>>
    ELSE LET x == CHOOSE y \in S : \A z \in S : NameLeq(y, z)
         IN  <<x>> \o ByName(S \ {x})

Reverse(q) == [k \in 1..Len(q) |-> q[Len(q) + 1 - k]]

\* line 696, os.listdir(args.output_dir): the names in string order or in
\* the reverse of it (SpecLatest takes every order)
ListDir(fs) == {ByName(DOMAIN fs), Reverse(ByName(DOMAIN fs))}

\* lines 697-699
ResolveLatest(ls) == LastOrNone(Sorted(SelectSeq(ls, IsCheckpointDir)))

\* f with name bound to content
Put(f, name, content) ==
    [n \in DOMAIN f \cup {name} |-> IF n = name THEN content ELSE f[n]]

Write(w, what, name) == [who |-> w, what |-> what, name |-> name]

NoPos == <<-1, -1>>

TrainInitIdle ==
    /\ num_batches = 0 /\ gradient_accumulation_steps = 0
    /\ num_train_epochs = 0 /\ checkpointing_steps = 0
    /\ dataset_name = None /\ train_data_dir = None /\ image_column = None
    /\ checkpoints_total_limit = 0
    /\ launch_resume = None /\ run = 0 /\ output_dir = <<>> /\ writes = {}
    /\ pc = <<>> /\ args_resume = <<>> /\ resume_path = <<>> /\ found = <<>>
    /\ global_step = <<>> /\ initial_global_step = <<>> /\ first_epoch = <<>>
    /\ epoch = <<>> /\ step = <<>> /\ acc_step = <<>> /\ sync_gradients = <<>>
    /\ grads = <<>> /\ window = <<>> /\ opt_steps = <<>> /\ sched_steps = <<>>
    /\ applied = <<>> /\ coll = <<>> /\ hist = <<>> /\ last_pos = NoPos

\* the state of the processes of a fresh launch
Launched(arg) ==
    /\ launch_resume' = arg
    /\ pc' = [w \in Procs |-> "start"]
    /\ args_resume' = [w \in Procs |-> arg]
    /\ resume_path' = [w \in Procs |-> None]
    /\ found' = [w \in Procs |-> "unknown"]
    /\ global_step' = [w \in Procs |-> 0]
    /\ initial_global_step' = [w \in Procs |-> 0]
    /\ first_epoch' = [w \in Procs |-> 0]
    /\ epoch' = [w \in Procs |-> 0]
    /\ step' = [w \in Procs |-> 0]
    /\ acc_step' = [w \in Procs |-> 0]
    /\ sync_gradients' = [w \in Procs |-> TRUE]
    /\ grads' = [w \in Procs |-> 0]
    /\ window' = [w \in Procs |-> 0]
    /\ opt_steps' = [w \in Procs |-> 0]
    /\ sched_steps' = [w \in Procs |-> 0]
    /\ applied' = [w \in Procs |-> <<>>]
    /\ coll' = [w \in Procs |-> 0]
    /\ last_pos' = NoPos

\* the columns of the dataset that load_dataset returns (562)
column_names == <<<<"image">>, <<"label">>>>

\* lines 310 and 563-567: the start-up checks of the configuration
NoSource(name, dir) == name = None /\ dir = None

\* line 566 with every column name accepted
UnknownColumn_never(col, names) == FALSE

\* line 566: image_column not in column_names
UnknownColumn(col, names) == \A k \in 1..Len(names) : names[k] # col

\* the first launch, over an output directory that does not exist yet
FirstLaunch ==
    /\ launch_resume \in ResumeArgs
    /\ run = 1
    /\ output_dir = <<>>
    /\ writes = {}
    /\ pc = [w \in Procs |-> "start"]
    /\ args_resume = [w \in Procs |-> launch_resume]
    /\ resume_path = [w \in Procs |-> None]
    /\ found = [w \in Procs |-> "unknown"]
    /\ global_step = [w \in Procs |-> 0]
    /\ initial_global_step = [w \in Procs |-> 0]
    /\ first_epoch = [w \in Procs |-> 0]
    /\ epoch = [w \in Procs |-> 0]
    /\ step = [w \in Procs |-> 0]
    /\ acc_step = [w \in Procs |-> 0]
    /\ sync_gradients = [w \in Procs |-> TRUE]
    /\ grads = [w \in Procs |-> 0]
    /\ window = [w \in Procs |-> 0]
    /\ opt_steps = [w \in Procs |-> 0]
    /\ sched_steps = [w \in Procs |-> 0]
    /\ applied = [w \in Procs |-> <<>>]
    /\ coll = [w \in Procs |-> 0]
    /\ hist = <<>>
    /\ last_pos = NoPos

\* the first launch of a plain run: a local data directory, the default image
\* column, no checkpoint limit
TrainInit ==
    /\ num_batches \in 1..MaxBatches
    /\ gradient_accumulation_steps \in 1..MaxAccumulation
    /\ num_train_epochs \in 1..MaxEpochs
    /\ checkpointing_steps \in 1..MaxCheckpointing
    /\ dataset_name = None
    /\ train_data_dir = <<"data">>
    /\ image_column = <<"image">>
    /\ checkpoints_total_limit = 0
    /\ FirstLaunch

\* the first launch of a short run with every combination of data source,
\* image column and checkpoint limit
OptionsInit ==
    /\ num_batches = MaxBatches
    /\ gradient_accumulation_steps = 1
    /\ num_train_epochs = 1
    /\ checkpointing_steps = 1
    /\ dataset_name \in {None, <<"dataset">>}
    /\ train_data_dir \in {None, <<"data">>}
    /\ image_column \in {<<"image">>, <<"albedo">>}
    /\ checkpoints_total_limit \in 0..MaxLimit
    /\ FirstLaunch

\* a collective that lets every process through at once
AllArrived_alone(w) == TRUE

\* every process has entered the collective that w is in
AllArrived(w) == \A v \in Procs : coll[v] >= coll[w]

\* line 781, accelerator.backward(loss): this batch's gradients are added
BackwardOp(st) ==
    [st EXCEPT !.grads = @ + 1, !.applied = Append(@, "backward")]

\* line 782, optimizer.step(): applies the accumulated gradients; skipped by
\* the prepared optimizer while sync_gradients is false
OptimizerStepOp(st, sync) ==
    IF sync
    THEN [st EXCEPT !.opt = @ + 1, !.window = st.grads,
                    !.applied = Append(@, "optimizer.step")]
    ELSE st

\* line 783, lr_scheduler.step(): skipped while sync_gradients is false
SchedulerStepOp(st, sync) ==
    IF sync
    THEN [st EXCEPT !.sched = @ + 1, !.applied = Append(@, "lr_scheduler.step")]
    ELSE st

\* line 784, optimizer.zero_grad(): skipped while sync_gradients is false
ZeroGradOp(st, sync) ==
    IF sync
    THEN [st EXCEPT !.grads = 0, !.applied = Append(@, "zero_grad")]
    ELSE st

\* lines 727-730: epoch e starts at its first batch, or the loop has ended
EnterEpoch(w, e) ==
    /\ epoch' = [epoch EXCEPT ![w] = e]
    /\ IF e < num_train_epochs
       THEN /\ step' = [step EXCEPT ![w] = 0]
            /\ pc' = [pc EXCEPT ![w] = "forward"]
       ELSE /\ pc' = [pc EXCEPT ![w] = "wait"]
            /\ UNCHANGED step

\* lines 79-313 and 317-670: start-up.  parse_args raises when no data source
\* is given (310), before anything is created; the primary creates the
\* output directory (345-347); an image column that the dataset does not
\* have raises (566-569); the primary creates its trackers' log directory
\* under the output directory (319, 663-665); the other processes leave
\* main_process_first (588) only after the primary.
Startup(w) ==
    /\ pc[w] = "start"
    /\ IF NoSource(dataset_name, train_data_dir)
          \/ UnknownColumn(image_column, column_names)
       THEN /\ pc' = [pc EXCEPT ![w] = "failed"]
            /\ UNCHANGED <<output_dir, writes>>
       ELSE /\ IsMainProcess(w)
                  \/ \A v \in Procs : IsMainProcess(v) => pc[v] # "start"
            /\ IF IsMainProcess(w)
               THEN /\ output_dir' = Put(output_dir, <<"logs">>, [kind |-> "dir"])
                    /\ writes' = writes \cup {Write(w, "makedirs", <<"logs">>)}
               ELSE UNCHANGED <<output_dir, writes>>
            /\ pc' = [pc EXCEPT ![w] = "resume"]
    /\ UNCHANGED <<configVars, launch_resume, run, args_resume, resume_path,
                   found, global_step, initial_global_step, first_epoch, epoch,
                   step, acc_step, sync_gradients, grads, window, opt_steps,
                   sched_steps, applied, coll, hist, last_pos>>
    /\ UNCHANGED notTrainVars

\* lines 707-713: accelerator.load_state and the step and epoch read off path
LoadState(w, p) ==
    /\ opt_steps' = [opt_steps EXCEPT ![w] = output_dir[p].optimizer]
    /\ sched_steps' = [sched_steps EXCEPT ![w] = output_dir[p].scheduler]
    /\ global_step' = [global_step EXCEPT ![w] = IntOf(p[2])]
    /\ initial_global_step' = [initial_global_step EXCEPT ![w] = IntOf(p[2])]
    /\ first_epoch' =
          [first_epoch EXCEPT ![w] =
              FirstEpoch(IntOf(p[2]), num_batches, gradient_accumulation_steps)]

\* lines 688-716 with no --resume_from_checkpoint
ResumeNone(w) ==
    /\ pc[w] = "resume"
    /\ args_resume[w] = None
    /\ EnterEpoch(w, first_epoch[w])
    /\ UNCHANGED <<configVars, launch_resume, run, output_dir, writes,
                   args_resume, resume_path, found, global_step,
                   initial_global_step, first_epoch, acc_step,
                   sync_gradients, grads, window, opt_steps, sched_steps, applied,
                   coll, hist, last_pos>>
    /\ UNCHANGED notTrainVars

\* lines 691-693, 701, 707-713 with an explicit path: path is its basename and
\* is never None; load_state raises when the directory does not exist
ResumeExplicit(w) ==
    /\ pc[w] = "resume"
    /\ args_resume[w] \notin {None, <<"latest">>}
    /\ resume_path' = [resume_path EXCEPT ![w] = args_resume[w]]
    /\ IF args_resume[w] \in DOMAIN output_dir
       THEN /\ LoadState(w, args_resume[w])
            /\ found' = [found EXCEPT ![w] = "present"]
            /\ EnterEpoch(w, first_epoch'[w])
       ELSE /\ found' = [found EXCEPT ![w] = "absent"]
            /\ pc' = [pc EXCEPT ![w] = "failed"]
            /\ UNCHANGED <<global_step, initial_global_step, first_epoch,
                           opt_steps, sched_steps, epoch, step>>
    /\ UNCHANGED <<configVars, launch_resume, run, output_dir, writes,
                   args_resume, acc_step, sync_gradients, grads, window,
                   applied, coll, hist, last_pos>>
    /\ UNCHANGED notTrainVars

\* lines 691-713 with "latest"
ResumeLatest(w) ==
    /\ pc[w] = "resume"
    /\ args_resume[w] = <<"latest">>
    /\ \E ls \in ListDir(output_dir) :
          LET p == ResolveLatest(ls)
          IN  /\ resume_path' = [resume_path EXCEPT ![w] = p]
              /\ IF p = None
                 THEN /\ args_resume' = [args_resume EXCEPT ![w] = None]
                      /\ found' = [found EXCEPT ![w] = "absent"]
                      /\ UNCHANGED <<global_step, initial_global_step,
                                     first_epoch, opt_steps, sched_steps>>
                 ELSE /\ LoadState(w, p)
                      /\ found' = [found EXCEPT ![w] = "present"]
                      /\ UNCHANGED args_resume
    /\ EnterEpoch(w, first_epoch'[w])
    /\ UNCHANGED <<configVars, launch_resume, run, output_dir, writes,
                   acc_step, sync_gradients, grads, window, applied, coll, hist,
                   last_pos>>
    /\ UNCHANGED notTrainVars

\* lines 730-778: accumulate() decides whether this batch completes a window,
\* the loss is computed, and the process enters the gather of line 778
Forward(w) ==
    /\ pc[w] = "forward"
    /\ LET last == step[w] = num_batches - 1
           n    == IF last THEN 0 ELSE acc_step[w] + 1
       IN  /\ acc_step' = [acc_step EXCEPT ![w] = n]
           /\ sync_gradients' =
                 [sync_gradients EXCEPT
                     ![w] = SyncNow(acc_step[w] + 1,
                                    gradient_accumulation_steps, last)]
    /\ applied' = [applied EXCEPT ![w] = <<>>]
    /\ coll' = [coll EXCEPT ![w] = @ + 1]
    /\ pc' = [pc EXCEPT ![w] = "gather"]
    /\ UNCHANGED <<configVars, launch_resume, run, output_dir, writes,
                   args_resume, resume_path, found, global_step,
                   initial_global_step, first_epoch, epoch, step, grads, window,
                   opt_steps, sched_steps, hist, last_pos>>
    /\ UNCHANGED notTrainVars

\* lines 781-784, in the order of the code
UpdateOps(st, sync) ==
    ZeroGradOp(SchedulerStepOp(OptimizerStepOp(BackwardOp(st), sync), sync), sync)

\* lines 778-784: the gather returns once every process has entered it; then
\* backward, optimizer.step, lr_scheduler.step and optimizer.zero_grad
Update(w) ==
    /\ pc[w] = "gather"
    /\ AllArrived(w)
    /\ LET st == UpdateOps([grads |-> grads[w], opt |-> opt_steps[w],
                            sched |-> sched_steps[w], window |-> window[w],
                            applied |-> <<>>],
                           sync_gradients[w])
       IN  /\ grads' = [grads EXCEPT ![w] = st.grads]
           /\ opt_steps' = [opt_steps EXCEPT ![w] = st.opt]
           /\ sched_steps' = [sched_steps EXCEPT ![w] = st.sched]
           /\ window' = [window EXCEPT ![w] = st.window]
           /\ applied' = [applied EXCEPT ![w] = st.applied]
    /\ pc' = [pc EXCEPT ![w] = "post"]
    /\ UNCHANGED <<configVars, launch_resume, run, output_dir, writes,
                   args_resume, resume_path, found, global_step,
                   initial_global_step, first_epoch, epoch, step, acc_step,
                   sync_gradients, coll, hist, last_pos>>
    /\ UNCHANGED notTrainVars

\* lines 786-809 and the advance of the loops of 730 and 727: after a
\* completed window global_step is counted and, when a checkpoint is due, the
\* primary saves the state under checkpoint-<global_step>; save_state is given
\* the directory (794-797), so the total_limit of lines 321-325 removes
\* nothing, and no other line removes a checkpoint
PostStep(w) ==
    /\ pc[w] = "post"
    /\ IF sync_gradients[w]
       THEN /\ global_step' = [global_step EXCEPT ![w] = @ + 1]
            /\ IF CheckpointDue(global_step[w] + 1, checkpointing_steps)
                  /\ IsMainProcess(w)
               THEN /\ output_dir' =
                         Put(output_dir, CheckpointName(global_step[w] + 1),
                             [optimizer |-> opt_steps[w],
                              scheduler |-> sched_steps[w]])
                    /\ writes' = writes \cup
                         {Write(w, "checkpoint",
                                CheckpointName(global_step[w] + 1))}
               ELSE UNCHANGED <<output_dir, writes>>
            /\ IF w = 0
               THEN /\ last_pos' = <<epoch[w], step[w]>>
                    /\ hist' = IF run = 1
                               THEN Append(hist, <<epoch[w], step[w]>>)
                               ELSE hist
               ELSE UNCHANGED <<hist, last_pos>>
       ELSE UNCHANGED <<global_step, output_dir, writes, hist, last_pos>>
    /\ IF step[w] + 1 < num_batches
       THEN /\ step' = [step EXCEPT ![w] = @ + 1]
            /\ pc' = [pc EXCEPT ![w] = "forward"]
            /\ UNCHANGED epoch
       ELSE EnterEpoch(w, epoch[w] + 1)
    /\ UNCHANGED <<configVars, launch_resume, run, args_resume, resume_path,
                   found, initial_global_step, first_epoch, acc_step,
                   sync_gradients, grads, window, opt_steps, sched_steps, applied,
                   coll>>
    /\ UNCHANGED notTrainVars

\* line 817: accelerator.wait_for_everyone() is entered
WaitForEveryone(w) ==
    /\ pc[w] = "wait"
    /\ coll' = [coll EXCEPT ![w] = @ + 1]
    /\ pc' = [pc EXCEPT ![w] = "final"]
    /\ UNCHANGED <<configVars, launch_resume, run, output_dir, writes,
                   args_resume, resume_path, found, global_step,
                   initial_global_step, first_epoch, epoch, step, acc_step,
                   sync_gradients, grads, window, opt_steps, sched_steps, applied,
                   hist, last_pos>>
    /\ UNCHANGED notTrainVars

\* lines 817-822: the barrier opens and the primary saves the final model
SaveFinal(w) ==
    /\ pc[w] = "final"
    /\ AllArrived(w)
    /\ IF IsMainProcess(w)
       THEN /\ output_dir' = Put(output_dir, <<"config.json">>,
                                 [model |-> opt_steps[w]])
            /\ writes' = writes \cup {Write(w, "save_pretrained", <<"config.json">>)}
       ELSE UNCHANGED <<output_dir, writes>>
    /\ pc' = [pc EXCEPT ![w] = "done"]
    /\ UNCHANGED <<configVars, launch_resume, run, args_resume, resume_path,
                   found, global_step, initial_global_step, first_epoch, epoch,
                   step, acc_step, sync_gradients, grads, window, opt_steps,
                   sched_steps, applied, coll, hist, last_pos>>
    /\ UNCHANGED notTrainVars

\* the processes are terminated from outside, or have ended, and the program
\* is launched again over the same output directory (parse_args, 79-313)
Relaunch ==
    /\ run < MaxRuns
    /\ run' = run + 1
    /\ \E arg \in ResumeArgs : Launched(arg)
    /\ writes' = {}
    /\ UNCHANGED <<configVars, output_dir, hist>>
    /\ UNCHANGED notTrainVars

Next ==
    \/ \E w \in Procs : Startup(w)
    \/ \E w \in Procs : ResumeNone(w)
    \/ \E w \in Procs : ResumeExplicit(w)
    \/ \E w \in Procs : ResumeLatest(w)
    \/ \E w \in Procs : Forward(w)
    \/ \E w \in Procs : Update(w)
    \/ \E w \in Procs : PostStep(w)
    \/ \E w \in Procs : WaitForEveryone(w)
    \/ \E w \in Procs : SaveFinal(w)
    \/ Relaunch

(***************************************************************************)
(* Decoder surgery and parameter freezing: main(), lines 349-397 and       *)
(* 507-538, and the shapes and parameter updates of the training steps     *)
(* that follow.  A module is a record of its layers, a layer a record of   *)
(* its widths; a tensor is followed by its shape [channels, size] only.    *)
(***************************************************************************)

\* line 378
numc == 128

\* the channel widths a pretrained decoder may have
Widths == {64, 128, 256}

\* the smallest and the largest side of a latent
LatentSizes == 3..MaxLatent

\* torch.nn.Conv2d(in_channels, out_channels, kernel_size, stride, padding)
Conv2d(i, o, k, s, p) ==
    [in_channels |-> i, out_channels |-> o, kernel_size |-> k, stride |-> s,
     padding |-> p]

\* torch.nn.GroupNorm(num_groups, num_channels)
GroupNorm(g, c) == [num_groups |-> g, num_channels |-> c]

\* a residual block of the pretrained bottleneck stage, of width c
ResnetBlock(c) ==
    [norm1 |-> GroupNorm(32, c), conv1 |-> Conv2d(c, c, 3, 1, 1),
     norm2 |-> GroupNorm(32, c), conv2 |-> Conv2d(c, c, 3, 1, 1)]

\* the attention of the pretrained bottleneck stage, of width c
AttentionBlock(c) == [group_norm |-> GroupNorm(32, c), channels |-> c]

\* the bottleneck stage vae.decoder.mid_block of a pretrained decoder
PretrainedMidBlock(c) ==
    [resnets |-> <<ResnetBlock(c), ResnetBlock(c)>>,
     attentions |-> <<AttentionBlock(c)>>]

\* the upsampling stages of a pretrained decoder with block_out_channels boc:
\* they run from the last width to the first, and every stage but the last
\* doubles the side
PretrainedUpBlocks(boc) ==
    LET n == Len(boc)
    IN  [k \in 1..n |->
            [in_channels  |-> IF k = 1 THEN boc[n] ELSE boc[n - k + 2],
             out_channels |-> boc[n - k + 1],
             upsample     |-> k < n]]

\* line 350: the decoder of AutoencoderKL.from_pretrained
PretrainedDecoder(boc, lc, k, s, p) ==
    [conv_in       |-> Conv2d(lc, boc[Len(boc)], 3, 1, 1),
     mid_block     |-> PretrainedMidBlock(boc[Len(boc)]),
     up_blocks     |-> PretrainedUpBlocks(boc),
     conv_norm_out |-> GroupNorm(32, boc[1]),
     conv_out      |-> Conv2d(boc[1], 3, k, s, p),
     copied        |-> <<>>]

\* the shape no tensor has: the call raised
ShapeError == [channels |-> 0, size |-> 0]

\* the shape a convolution gives, or the error it raises on a wrong width
ApplyConv(c, x) ==
    IF x = ShapeError \/ x.channels # c.in_channels
          \/ x.size + 2 * c.padding < c.kernel_size
    THEN ShapeError
    ELSE [channels |-> c.out_channels,
          size |-> ((x.size + 2 * c.padding - c.kernel_size) \div c.stride) + 1]

\* a normalization keeps the shape and raises on a wrong width
ApplyNorm(n, x) ==
    IF x = ShapeError \/ x.channels # n.num_channels THEN ShapeError ELSE x

\* a residual block: norm1, conv1, norm2, conv2, and the sum with its input
ApplyResnet(r, x) ==
    LET h == ApplyConv(r.conv2, ApplyNorm(r.norm2,
                 ApplyConv(r.conv1, ApplyNorm(r.norm1, x))))
    IN  IF h = x THEN x ELSE ShapeError

\* an attention keeps the shape and raises on a wrong width
ApplyAttention(a, x) ==
    IF x = ShapeError \/ x.channels # a.channels THEN ShapeError
    ELSE ApplyNorm(a.group_norm, x)

RECURSIVE ApplyPairs(_, _, _, _)
\* the loop of the bottleneck stage's forward over zip(attentions, resnets[1:])
ApplyPairs(b, k, n, x) ==
    IF k > n THEN x
    ELSE ApplyPairs(b, k + 1, n,
                    ApplyResnet(b.resnets[k + 1], ApplyAttention(b.attentions[k], x)))

\* the forward of a bottleneck stage or of a clone of it: the first residual
\* block, then each attention with the residual block after it
ApplyMidBlock(b, x) ==
    ApplyPairs(b, 1, Min(Len(b.attentions), Len(b.resnets) - 1),
               ApplyResnet(b.resnets[1], x))

\* one upsampling stage
ApplyUpBlock(u, x) ==
    IF x = ShapeError \/ x.channels # u.in_channels THEN ShapeError
    ELSE [channels |-> u.out_channels,
          size |-> IF u.upsample THEN 2 * x.size ELSE x.size]

RECURSIVE ApplyUpBlocks(_, _, _)
\* lines 444-453 and 483-485: the upsampling stages in turn
ApplyUpBlocks(us, k, x) ==
    IF k > Len(us) THEN x ELSE ApplyUpBlocks(us, k + 1, ApplyUpBlock(us[k], x))

\* the forward of the decoder as it was loaded
OriginalForward(d, z) ==
    ApplyConv(d.conv_out,
        ApplyNorm(d.conv_norm_out,
            ApplyUpBlocks(d.up_blocks, 1,
                ApplyMidBlock(d.mid_block, ApplyConv(d.conv_in, z)))))

\* lines 404-506: the shapes along new_forward
NewForwardShape(d, z) ==
    LET a == ApplyMidBlock(d.mid_block, ApplyConv(d.conv_in, z))
        b == ApplyMidBlock(d.copied[2], ApplyMidBlock(d.copied[1], a))
        c == ApplyUpBlocks(d.up_blocks, 1, b)
        e == ApplyMidBlock(d.copied[4], ApplyMidBlock(d.copied[3], c))
    IN  ApplyConv(d.conv_out, ApplyNorm(d.conv_norm_out, e))

\* lines 384-388 and 389-393: every residual block of the clone gets fresh
\* layers of width numc
ResizeResnets(b) ==
    [b EXCEPT !.resnets =
        [k \in 1..Len(b.resnets) |->
            [norm1 |-> GroupNorm(32, numc), conv1 |-> Conv2d(numc, numc, 3, 1, 1),
             norm2 |-> GroupNorm(32, numc), conv2 |-> Conv2d(numc, numc, 3, 1, 1)]]]

\* lines 510-516: the final projection with the kernel size, stride and
\* padding of the one it replaces
NewConvOut(old) ==
    Conv2d(old.in_channels, new_output_channels, old.kernel_size, old.stride,
           old.padding)

\* the modules that hold the parameters of the model as it was loaded
PretrainedModules ==
    {<<"encoder", m>> : m \in {"conv_in", "down_blocks", "mid_block",
                                "conv_norm_out", "conv_out"}}
    \cup {<<"decoder", m>> : m \in {"conv_in", "mid_block", "up_blocks",
                                    "conv_norm_out", "conv_out"}}
    \cup {<<"vae", m>> : m \in {"quant_conv", "post_quant_conv"}}

\* a module's parameters: do they require a gradient, where their values
\* came from, and how many updates have moved them from those values
Parameter(rg, from) == [requires_grad |-> rg, init |-> from, updates |-> 0]

CopiedName(k) ==
    <<"decoder", <<"copied_mid_block1", "copied_mid_block2",
                   "copied_mid_block3", "copied_mid_block4">>[k]>>

\* line 520, vae.encoder.parameters(), with nothing frozen
EncoderParameters_none(ps) == {}

\* line 520, vae.encoder.parameters()
EncoderParameters(ps) == {m \in DOMAIN ps : m[1] = "encoder"}

\* the modules that one training step runs (748-755 and new_forward)
ForwardModules(ps) == DOMAIN ps

SurgeryInitIdle ==
    /\ sur_pc = "idle"
    /\ onlytraindecoder = FALSE
    /\ pretrained = <<>>
    /\ vae = <<>>
    /\ parameters = <<>>
    /\ vae_params = {}
    /\ latent = ShapeError
    /\ decoded = ShapeError
    /\ updates = 0

\* the state after AutoencoderKL.from_pretrained, line 350-352
SurgeryInit ==
    /\ sur_pc = "clone"
    /\ onlytraindecoder \in BOOLEAN
    /\ \E n \in 1..MaxUpBlocks, k \in {1, 3}, s \in 1..2, p \in 0..1 :
          \E boc \in [1..n -> Widths] :
              pretrained = PretrainedDecoder(boc, 4, k, s, p)
    /\ vae = pretrained
    /\ parameters = [m \in PretrainedModules |-> Parameter(TRUE, "pretrained")]
    /\ vae_params = {}
    /\ latent \in {[channels |-> 4, size |-> n] : n \in LatentSizes}
    /\ decoded = ShapeError
    /\ updates = 0

\* lines 355-362: four deep copies of the bottleneck stage become attributes
\* of the decoder
CloneMidBlocks ==
    /\ sur_pc = "clone"
    /\ vae' = [vae EXCEPT !.copied = [k \in 1..4 |-> vae.mid_block]]
    /\ parameters' =
          [m \in DOMAIN parameters \cup {CopiedName(k) : k \in 1..4} |->
              IF m \in DOMAIN parameters THEN parameters[m]
              ELSE Parameter(TRUE, "copied")]
    /\ sur_pc' = "resize3"
    /\ UNCHANGED <<onlytraindecoder, pretrained, vae_params, latent, decoded, updates>>
    /\ UNCHANGED notSurgeryVars

\* lines 384-388
ResizeClone3 ==
    /\ sur_pc = "resize3"
    /\ vae' = [vae EXCEPT !.copied[3] = ResizeResnets(@)]
    /\ parameters' = [parameters EXCEPT ![CopiedName(3)] = Parameter(TRUE, "fresh")]
    /\ sur_pc' = "resize4"
    /\ UNCHANGED <<onlytraindecoder, pretrained, vae_params, latent, decoded, updates>>
    /\ UNCHANGED notSurgeryVars

\* lines 389-393
ResizeClone4 ==
    /\ sur_pc = "resize4"
    /\ vae' = [vae EXCEPT !.copied[4] = ResizeResnets(@)]
    /\ parameters' = [parameters EXCEPT ![CopiedName(4)] = Parameter(TRUE, "fresh")]
    /\ sur_pc' = "attentions"
    /\ UNCHANGED <<onlytraindecoder, pretrained, vae_params, latent, decoded, updates>>
    /\ UNCHANGED notSurgeryVars

\* lines 396-397
ClearAttentions ==
    /\ sur_pc = "attentions"
    /\ vae' = [vae EXCEPT !.copied[3].attentions = <<>>,
                          !.copied[4].attentions = <<>>]
    /\ sur_pc' = "conv_out"
    /\ UNCHANGED <<onlytraindecoder, pretrained, parameters, vae_params, latent,
                   decoded, updates>>
    /\ UNCHANGED notSurgeryVars

\* lines 507-516: new_forward is bound and the final projection is replaced
ReplaceConvOut ==
    /\ sur_pc = "conv_out"
    /\ vae' = [vae EXCEPT !.conv_out = NewConvOut(@)]
    /\ parameters' = [parameters EXCEPT ![<<"decoder", "conv_out">>] =
                                            Parameter(TRUE, "fresh")]
    /\ sur_pc' = "requires_grad"
    /\ UNCHANGED <<onlytraindecoder, pretrained, vae_params, latent, decoded, updates>>
    /\ UNCHANGED notSurgeryVars

\* lines 517-521: every parameter requires a gradient, and in decoder-only
\* mode those of the encoder then do not
RequiresGrad ==
    /\ sur_pc = "requires_grad"
    /\ LET all == [m \in DOMAIN parameters |->
                      [parameters[m] EXCEPT !.requires_grad = TRUE]]
       IN  parameters' =
              IF onlytraindecoder
              THEN [m \in DOMAIN all |->
                      IF m \in EncoderParameters(all)
                      THEN [all[m] EXCEPT !.requires_grad = FALSE]
                      ELSE all[m]]
              ELSE all
    /\ sur_pc' = "optimizer"
    /\ UNCHANGED <<onlytraindecoder, pretrained, vae, vae_params, latent, decoded,
                   updates>>
    /\ UNCHANGED notSurgeryVars

\* lines 518 and 538: the optimizer is built over vae.parameters()
BuildOptimizer ==
    /\ sur_pc = "optimizer"
    /\ vae_params' = DOMAIN parameters
    /\ sur_pc' = "train"
    /\ UNCHANGED <<onlytraindecoder, pretrained, vae, parameters, latent, decoded,
                   updates>>
    /\ UNCHANGED notSurgeryVars

\* lines 748-784 for one batch: the latent is decoded by new_forward; when
\* that raises the run ends; otherwise the optimizer moves every parameter it
\* holds that received a gradient
TrainStep ==
    /\ sur_pc = "train"
    /\ updates < MaxUpdates
    /\ decoded' = NewForwardShape(vae, latent)
    /\ IF decoded' = ShapeError
       THEN /\ sur_pc' = "raised"
            /\ UNCHANGED <<parameters, updates>>
       ELSE /\ parameters' =
                  [m \in DOMAIN parameters |->
                      IF m \in vae_params /\ m \in ForwardModules(parameters)
                            /\ parameters[m].requires_grad
                      THEN [parameters[m] EXCEPT !.updates = @ + 1]
                      ELSE parameters[m]]
            /\ updates' = updates + 1
            /\ UNCHANGED sur_pc
    /\ UNCHANGED <<onlytraindecoder, pretrained, vae, vae_params, latent>>
    /\ UNCHANGED notSurgeryVars

SurgeryNext ==
    \/ CloneMidBlocks
    \/ ResizeClone3
    \/ ResizeClone4
    \/ ClearAttentions
    \/ ReplaceConvOut
    \/ RequiresGrad
    \/ BuildOptimizer
    \/ TrainStep

(***************************************************************************)
(* Specifications.                                                         *)
(***************************************************************************)
InitDecode ==
    DecInit /\ SplitInitIdle /\ LossInitIdle /\ LatestInitIdle /\ TrainInitIdle
    /\ SurgeryInitIdle

SpecDecode == InitDecode /\ [][DecNext]_vars

InitSplit ==
    SplitInit /\ DecInitIdle /\ LossInitIdle /\ LatestInitIdle /\ TrainInitIdle
    /\ SurgeryInitIdle

SpecSplit == InitSplit /\ [][SplitNext]_vars

InitLoss ==
    LossInit /\ DecInitIdle /\ SplitInitIdle /\ LatestInitIdle /\ TrainInitIdle
    /\ SurgeryInitIdle

SpecLoss == InitLoss /\ [][LossNext]_vars

InitLatest ==
    LatestInit /\ DecInitIdle /\ SplitInitIdle /\ LossInitIdle /\ TrainInitIdle
    /\ SurgeryInitIdle

SpecLatest == InitLatest /\ [][LatestNext]_vars

Init ==
    TrainInit /\ DecInitIdle /\ SplitInitIdle /\ LossInitIdle /\ LatestInitIdle
    /\ SurgeryInitIdle

Spec == Init /\ [][Next]_vars

InitSurgery ==
    SurgeryInit /\ DecInitIdle /\ SplitInitIdle /\ LossInitIdle /\ LatestInitIdle
    /\ TrainInitIdle

SpecSurgery == InitSurgery /\ [][SurgeryNext]_vars

InitOptions ==
    OptionsInit /\ DecInitIdle /\ SplitInitIdle /\ LossInitIdle /\ LatestInitIdle
    /\ SurgeryInitIdle

SpecOptions == InitOptions /\ [][Next]_vars

(***************************************************************************)
(* Claims about the decode sequence.                                       *)
(***************************************************************************)
StageNames(tr) == [k \in 1..Len(tr) |-> tr[k].stage]

ExpectedStages(n) ==
    <<<<"conv_in", 0>>, <<"mid_block", 0>>, <<"copied_mid_block1", 0>>,
      <<"copied_mid_block2", 0>>, <<"to_upscale_dtype", 0>>>>
    \o [k \in 1..n |-> <<"up_block", k>>]
    \o <<<<"copied_mid_block3", 0>>, <<"copied_mid_block4", 0>>,
         <<"to_upscale_dtype", 0>>, <<"conv_norm_out", 0>>, <<"conv_act", 0>>,
         <<"conv_out", 0>>>>

IsPrefix(s, t) == Len(s) <= Len(t) /\ \A k \in 1..Len(s) : s[k] = t[k]

\* C7: in both execution modes a decode call applies input projection,
\* mid_block, the two attention-bearing clones, the dtype cast, every up_block
\* in turn, the two narrowed clones, the dtype cast, and then normalization,
\* activation and final projection, in this order and each exactly once: the
\* stages applied so far are always a prefix of that sequence, and a finished
\* call has applied all of it.
DecodeOrder ==
    /\ IsPrefix(StageNames(dec_trace), ExpectedStages(dec_nup))
    /\ dec_pc = "done" => StageNames(dec_trace) = ExpectedStages(dec_nup)

DecodeOrderWitness ==
    /\ dec_pc = "done"
    /\ Recompute
    /\ dec_nup >= 2
    /\ Len(dec_trace) = 11 + dec_nup

\* the stages from the original bottleneck stage to the second narrowed clone
BodyStages(n) ==
    {<<"mid_block", 0>>, <<"copied_mid_block1", 0>>, <<"copied_mid_block2", 0>>,
     <<"copied_mid_block3", 0>>, <<"copied_mid_block4", 0>>}
    \cup {<<"up_block", k>> : k \in 1..n}

\* C8: the execution mode is uniform over the decode sequence: in recompute
\* mode every stage from mid_block to copied_mid_block4 runs under recompute,
\* and in direct mode none does.
UniformMode ==
    \A k \in 1..Len(dec_trace) :
        dec_trace[k].stage \in BodyStages(dec_nup) =>
            dec_trace[k].how = (IF Recompute THEN "checkpoint" ELSE "direct")

(***************************************************************************)
(* Claims about the split of a batch.                                      *)
(***************************************************************************)
RECURSIVE Offset(_, _)
\* the row-major offset of index idx (0-based) in a tensor of this shape
Offset(shape, idx) ==
    IF shape = <<>> THEN 0
    ELSE Head(idx) * Prod(Tail(shape)) + Offset(Tail(shape), Tail(idx))

At(t, idx) == t.data[Offset(t.shape, idx) + 1]

BatchSize == Len(examples)

\* C9: for a batch [B, 3, H, 5W], input_image is [B, 3, H, W] and holds the
\* first W columns, and target is [B, 12, H, W] with channels 3k..3k+2 of
\* example b holding the three channels of tile k+2 of example b.
SplitShape ==
    sp_pc = "done" =>
        /\ datafile.shape = <<BatchSize, 3, Resolution, 5 * Resolution>>
        /\ input_image.shape = <<BatchSize, 3, Resolution, Resolution>>
        /\ \A b \in 0..(BatchSize - 1), c \in 0..2,
              h \in 0..(Resolution - 1), w \in 0..(Resolution - 1) :
                At(input_image, <<b, c, h, w>>) = At(datafile, <<b, c, h, w>>)
        /\ target.shape = <<BatchSize, 12, Resolution, Resolution>>
        /\ \A b \in 0..(BatchSize - 1), k \in 0..3, c \in 0..2,
              h \in 0..(Resolution - 1), w \in 0..(Resolution - 1) :
                At(target, <<b, 3 * k + c, h, w>>)
                    = At(datafile, <<b, c, h, (k + 1) * Resolution + w>>)

(***************************************************************************)
(* Claims about the perceptual term.                                       *)
(***************************************************************************)
RECURSIVE SumScores(_)
SumScores(calls) ==
    IF calls = <<>> THEN 0 ELSE Head(calls).score + SumScores(Tail(calls))

\* C10: the perceptual term is computed over the four groups [0:3], [3:6],
\* [6:9], [9:12], pairwise disjoint and covering the 12 channels; every call
\* of the metric pairs group i of the prediction with group i of the target;
\* the term is the sum of the four scores divided by 4.
PerceptualGroups ==
    /\ \A k \in 1..Len(lpips_calls) :
          /\ lpips_calls[k].pred = {3 * (k - 1), 3 * (k - 1) + 1, 3 * (k - 1) + 2}
          /\ lpips_calls[k].target = lpips_calls[k].pred
    /\ \A j, k \in 1..Len(lpips_calls) :
          j # k => lpips_calls[j].pred \cap lpips_calls[k].pred = {}
    /\ ls_pc = "done" =>
          /\ Len(lpips_calls) = 4
          /\ UNION {lpips_calls[k].pred : k \in 1..4} = 0..11
          /\ lpips_loss.den = 4
          /\ lpips_loss.num = SumScores(lpips_calls)

PerceptualGroupsWitness ==
    /\ ls_pc = "done"
    /\ Len(lpips_calls) = 4
    /\ lpips_calls[1].score # lpips_calls[4].score
    /\ lpips_loss.num > 0

(***************************************************************************)
(* Claims about "latest".                                                  *)
(***************************************************************************)
CheckpointsListed == {listing[k] : k \in {j \in 1..Len(listing) : listing[j][1] = "checkpoint"}}

\* the step a checkpoint directory's name is read as
StepOf(d) == IntOf(d[2])

\* C3: resolving "latest" selects, among the checkpoint-<n> directories
\* listed, the one with the numerically greatest n, whatever the order of the
\* listing and whatever the order of the names as strings; with none listed
\* it selects nothing.
LatestIsMax ==
    lt_pc = "done" =>
        IF CheckpointsListed = {} THEN path = None
        ELSE /\ path \in CheckpointsListed
             /\ \A d \in CheckpointsListed : StepOf(d) <= StepOf(path)

\* the example of the specification, listed in an order that is neither the
\* numeric nor the string order
LatestIsMaxWitness ==
    /\ lt_pc = "done"
    /\ listing = <<CheckpointName(100), CheckpointName(250), CheckpointName(50)>>
    /\ path = CheckpointName(250)

(***************************************************************************)
(* Claims about the training loop.                                         *)
(***************************************************************************)
FullUpdate == <<"backward", "optimizer.step", "lr_scheduler.step", "zero_grad">>

\* the process is where the loop starts: before its first batch, or past the
\* loop when no epoch is left
LoopStart(w) == coll[w] = 0 /\ pc[w] \in {"forward", "wait"}

\* what one batch does: gradients are accumulated on every batch; on a batch
\* that completes a window the optimizer step, the scheduler step and the
\* clearing of the gradients follow in this order, and on any other batch
\* none of them is applied; a window is complete when
\* gradient_accumulation_steps batches have been accumulated or the batch is
\* the last of its epoch, and the optimizer step applies the gradients of
\* the whole window
BatchOrder ==
    \A w \in Procs :
        /\ grads[w] < gradient_accumulation_steps
        /\ pc[w] = "post" =>
              IF sync_gradients[w]
              THEN /\ applied[w] = FullUpdate
                   /\ grads[w] = 0
                   /\ window[w] >= 1
                   /\ \/ window[w] = gradient_accumulation_steps
                      \/ /\ step[w] = num_batches - 1
                         /\ window[w] < gradient_accumulation_steps
              ELSE /\ applied[w] = <<"backward">>
                   /\ grads[w] >= 1
                   /\ step[w] # num_batches - 1
        /\ pc[w] \in {"forward", "gather", "wait", "final", "done"}
              => opt_steps[w] = global_step[w] /\ sched_steps[w] = global_step[w]

\* global_step moves only at the end of a batch that completed a window, by
\* exactly one, and it moves at the end of every such batch
StepCount ==
    \A w \in Procs :
        (run' = run /\ pc[w] # "resume") =>
            /\ global_step'[w] # global_step[w] =>
                  /\ global_step'[w] = global_step[w] + 1
                  /\ pc[w] = "post"
                  /\ sync_gradients[w]
                  /\ applied[w] = FullUpdate
            /\ (pc[w] = "post" /\ pc'[w] # "post" /\ sync_gradients[w]) =>
                  global_step'[w] = global_step[w] + 1

\* C1 (as amended): every batch accumulates gradients; the optimizer step is
\* applied only on a batch that completes an accumulation window, a window
\* being complete when the configured number of batches has been accumulated
\* or when the batch is the last of its epoch; it is followed by the
\* scheduler step and then the clearing of the gradients; global_step grows
\* by exactly one per completed window and never on another batch.
AccumulationWindow == []BatchOrder /\ [][StepCount]_vars

AccumulationWindowWitness ==
    \E w \in Procs :
        /\ pc[w] = "post"
        /\ sync_gradients[w]
        /\ applied[w] = FullUpdate
        /\ window[w] = 2
        /\ gradient_accumulation_steps = 2
        /\ num_batches = 2
        /\ step[w] = 1
        /\ global_step[w] = 1

\* C1 (as claimed): the optimizer step is applied only when the configured
\* number of accumulation steps has been reached.
StepOnlyOnFullWindow ==
    \A w \in Procs :
        (pc[w] = "post" /\ sync_gradients[w]) =>
            window[w] = gradient_accumulation_steps

\* the checkpoints written in this launch
CheckpointWrites == {r \in writes : r.what = "checkpoint"}

\* C2: a directory checkpoint-<g> is written exactly when global_step has
\* advanced to a positive multiple g of checkpointing_steps, one directory
\* per save, and every write to the output directory (its creation, the
\* checkpoints, the final model) is made by the primary process.
PrimaryOnlyCheckpoints ==
    /\ \A r \in writes : r.who = 0 /\ r.name \in DOMAIN output_dir
    /\ {r.name : r \in CheckpointWrites}
          = {CheckpointName(g) :
                g \in {k \in (initial_global_step[0] + 1)..global_step[0] :
                          k > 0 /\ k % checkpointing_steps = 0}}
    /\ Cardinality({r.name : r \in CheckpointWrites})
          = Cardinality({k \in (initial_global_step[0] + 1)..global_step[0] :
                            k % checkpointing_steps = 0})

PrimaryOnlyCheckpointsWitness ==
    /\ checkpointing_steps = 2
    /\ global_step[0] = 3
    /\ global_step[1] = 3
    /\ Write(0, "checkpoint", CheckpointName(2)) \in writes
    /\ Cardinality(CheckpointWrites) = 1
    /\ pc[1] = "forward"

\* C4: when resume is requested, as "latest" or as an explicit path, and the
\* requested checkpoint does not exist, start-up does not fail and training
\* starts fresh with global_step 0 and first epoch 0.
MissingCheckpointStartsFresh ==
    \A w \in Procs :
        (launch_resume # None /\ found[w] = "absent") =>
            /\ pc[w] # "failed"
            /\ initial_global_step[w] = 0
            /\ first_epoch[w] = 0
            /\ LoopStart(w) => global_step[w] = 0

\* the least k with k * gas >= nb
LeastCover(nb, gas) == CHOOSE k \in 0..nb : k * gas >= nb /\ (k - 1) * gas < nb

\* C5: after a successful resume from checkpoint-S the loop starts with
\* global_step S and with starting epoch floor(S / steps_per_epoch), where
\* steps_per_epoch is ceil(batches per epoch / gradient_accumulation_steps).
ResumeStartsAtSavedStep ==
    \A w \in Procs :
        found[w] = "present" =>
            LET S   == initial_global_step[w]
                spe == LeastCover(num_batches, gradient_accumulation_steps)
            IN  /\ resume_path[w] = CheckpointName(S)
                /\ first_epoch[w] * spe <= S
                /\ S < (first_epoch[w] + 1) * spe
                /\ LoopStart(w) =>
                      global_step[w] = S /\ epoch[w] = first_epoch[w]

ResumeStartsAtSavedStepWitness ==
    \E w \in Procs :
        /\ found[w] = "present"
        /\ launch_resume = <<"latest">>
        /\ LoopStart(w)
        /\ global_step[w] = 3
        /\ epoch[w] = 1
        /\ initial_global_step[w] = 3
        /\ first_epoch[w] = 1
        /\ num_batches = 2 /\ gradient_accumulation_steps = 1

\* C6: a launch restored from checkpoint-S resumes at step S with the saved
\* optimizer and scheduler state, and from there completes every step at the
\* batch position (epoch, batch) at which the uninterrupted launch, which
\* wrote the checkpoint and continued past S, completed the same step.
ResumeRoundTrip ==
    (run = 2 /\ found[0] = "present") =>
        /\ initial_global_step[0] = StepOf(resume_path[0])
        /\ LoopStart(0) =>
              /\ global_step[0] = StepOf(resume_path[0])
              /\ opt_steps[0] = output_dir[resume_path[0]].optimizer
              /\ sched_steps[0] = output_dir[resume_path[0]].scheduler
        /\ (global_step[0] > initial_global_step[0]
              /\ global_step[0] <= Len(hist)) =>
              last_pos = hist[global_step[0]]

(***************************************************************************)
(* Claims about decoder surgery and parameter freezing.                    *)
(***************************************************************************)
SurgeryDone == sur_pc \in {"requires_grad", "optimizer", "train", "raised"}

Decoded == sur_pc = "raised" \/ (sur_pc = "train" /\ updates > 0)

\* C11: after surgery, whatever the widths of the pretrained decoder, the
\* final projection has 12 output channels and the kernel size, stride and
\* padding of the one it replaced, each narrowed clone is as wide as the
\* output of the last upsampling stage, and a decode of the latent gives 12
\* channels of the side the pretrained decoder would have given.
SurgeryWidens ==
    /\ SurgeryDone =>
          /\ vae.conv_out = [pretrained.conv_out EXCEPT !.out_channels = 12]
          /\ \A k \in 3..4 :
                vae.copied[k].resnets[1].conv1.in_channels
                    = vae.up_blocks[Len(vae.up_blocks)].out_channels
    /\ Decoded =>
          decoded = [channels |-> 12, size |-> OriginalForward(pretrained, latent).size]

\* C13: in decoder-only mode no encoder parameter requires a gradient, every
\* decoder parameter, those of the four clones and of the new final
\* projection included, requires one, and the optimizer steps leave the
\* encoder at its pretrained values while they move the decoder; without the
\* mode every encoder and decoder parameter requires a gradient and is moved.
DecoderOnlyFreezesEncoder ==
    sur_pc \in {"optimizer", "train", "raised"} =>
        /\ {CopiedName(k) : k \in 1..4} \cup {<<"decoder", "conv_out">>}
              \subseteq DOMAIN parameters
        /\ sur_pc = "train" => vae_params = DOMAIN parameters
        /\ \A m \in DOMAIN parameters :
              /\ m[1] = "encoder" =>
                    /\ parameters[m].requires_grad = ~onlytraindecoder
                    /\ parameters[m].init = "pretrained"
                    /\ parameters[m].updates = IF onlytraindecoder THEN 0 ELSE updates
              /\ m[1] = "decoder" =>
                    /\ parameters[m].requires_grad
                    /\ parameters[m].updates = updates

DecoderOnlyFreezesEncoderWitness ==
    /\ sur_pc = "train"
    /\ onlytraindecoder
    /\ updates = 2
    /\ parameters[CopiedName(3)].updates = 2
    /\ parameters[<<"decoder", "conv_out">>].updates = 2
    /\ parameters[<<"encoder", "conv_in">>].updates = 0
    /\ ~parameters[<<"encoder", "conv_in">>].requires_grad

(***************************************************************************)
(* Claims about start-up errors, checkpoint retention, the checkpoint      *)
(* boundary and the length of a run.                                       *)
(***************************************************************************)
ConfigError ==
    \/ dataset_name = None /\ train_data_dir = None
    \/ \A k \in 1..Len(column_names) : column_names[k] # image_column

CheckpointDirs(dir) == {d \in DOMAIN dir : d[1] = "checkpoint"}

\* a launch with a configuration error has trained nothing and written no
\* checkpoint
NothingTrained ==
    ConfigError =>
        /\ \A w \in Procs :
              /\ pc[w] \in {"start", "failed"}
              /\ global_step[w] = 0 /\ opt_steps[w] = 0 /\ coll[w] = 0
        /\ CheckpointDirs(output_dir) = {}
        /\ CheckpointWrites = {}

\* a process that has failed does nothing more in its launch
NoRetry ==
    \A w \in Procs : (pc[w] = "failed" /\ run' = run) => pc'[w] = "failed"

\* C12: with neither a dataset name nor a data directory, or with an image
\* column that the dataset does not have, every process raises at start-up:
\* no training step is executed, no checkpoint is written, and a process that
\* has raised does not start again.
ConfigErrorsAreFatal == []NothingTrained /\ [][NoRetry]_vars

ConfigErrorsAreFatalWitness ==
    /\ dataset_name = <<"dataset">>
    /\ image_column = <<"albedo">>
    /\ run = 2
    /\ \A w \in Procs : pc[w] = "failed"

\* C14: when checkpoints_total_limit is configured, the output directory
\* never holds more checkpoint directories than the limit after a save, and
\* the ones that remain are those with the highest step numbers.
RetainedWithinLimit ==
    checkpoints_total_limit > 0 =>
        /\ Cardinality(CheckpointDirs(output_dir)) <= checkpoints_total_limit
        /\ \A w \in CheckpointWrites :
              \A d \in CheckpointDirs(output_dir) :
                  StepOf(w.name) - StepOf(d) < checkpoints_total_limit

\* process w is in a batch that it began after this launch brought its
\* global_step to a checkpoint boundary
PastBoundary(w) ==
    /\ global_step[w] > initial_global_step[w]
    /\ global_step[w] % checkpointing_steps = 0

Saved(g) == Write(0, "checkpoint", CheckpointName(g)) \in writes

\* C15 (as claimed): the checkpoint save is a barrier: no process begins the
\* batch after a checkpoint boundary before every process has reached the
\* boundary and the primary's save for it has completed.
SaveIsBarrier ==
    \A w \in Procs :
        (pc[w] \in {"gather", "post"} /\ PastBoundary(w)) =>
            /\ \A v \in Procs : global_step[v] >= global_step[w]
            /\ Saved(global_step[w])

\* C15 (as amended): the save itself is no barrier; the gather of every batch
\* is.  No process gets past the gather of a batch that follows a checkpoint
\* boundary, and none ends its launch, before every process has reached the
\* boundary and the primary's save for it has completed.
GatherIsBarrier ==
    \A w \in Procs :
        (pc[w] \in {"post", "done"} /\ PastBoundary(w)) =>
            /\ \A v \in Procs : global_step[v] >= global_step[w]
            /\ Saved(global_step[w])

GatherIsBarrierWitness ==
    /\ checkpointing_steps = 1
    /\ pc[1] = "post"
    /\ global_step[1] = 1
    /\ pc[0] = "gather"
    /\ global_step[0] = 1
    /\ Saved(1)

\* C16: in every launch, fresh or resumed from a checkpoint-S with
\* 0 <= S <= max_train_steps, global_step never exceeds max_train_steps, and
\* the loop ends with global_step equal to max_train_steps.
StepsBounded ==
    \A w \in Procs :
        LET max == MaxTrainSteps(num_train_epochs, num_batches,
                                 gradient_accumulation_steps)
        IN  (pc[w] \notin {"start", "resume", "failed"}
               /\ initial_global_step[w] <= max) =>
                /\ global_step[w] <= max
                /\ pc[w] \in {"wait", "final", "done"} => global_step[w] = max

====
